---- MODULE Spec2Model ----
(***************************************************************************)
(* A model of the RAG agent of this repository: the LangGraph nodes        *)
(* (retrieve_node, generate_node, decide_node, rewrite_query_node), the    *)
(* dispatch loop that drives them, and the RAGChain /                      *)
(* ConversationalRAGChain entry points (query, stream_query) with their    *)
(* bounded chat history, for a caller that runs its turns one after the    *)
(* other and for threads that save their turns at the same time.           *)
(*                                                                         *)
(* Texts are sequences of tokens (a token is a TLA+ string); an optional   *)
(* value is None (Python None / missing key) or Some(v).  Floats in [0,1]  *)
(* are integers in units of 1/Scale, so that every mean and every          *)
(* len(docs)/k the model can form is exact.                                *)
(***************************************************************************)
EXTENDS Integers, Sequences, FiniteSets, TLC

VARIABLES
    mode,          \* which entry point the caller uses: "graph", "chain", "decide",
                   \* "session" (a chain whose completed turns are logged),
                   \* "concurrent" (threads saving turns into one chain),
                   \* "retrieve" (retrieve_node alone), "cache" (a cached node),
                   \* "retry" (a retrying node), "chat" (the chat front end),
                   \* "theme" (the components using useTheme)
    pc,            \* position of the running turn
    state,         \* the AgentState dict threaded through the graph nodes
    cfg,           \* arguments of the node factories and of create_initial_state
    decision,      \* last value returned by decide_node
    calls,         \* collaborator calls (vectorstore, llm) made in the current turn
    execs,         \* node executions dispatched in the current turn (saturating)
    raised,        \* exception that escaped the entry point of the current turn
    chain,         \* the chain object: class, chat_history, max_history
    frame,         \* the suspended stream_query generator: question, prompt, answer_parts
    yielded,       \* increments the caller has received from the current stream
    result,        \* value returned by the last query() call
    ended,         \* how the last chain call ended: returned, raised, exhausted, closed
    turns,         \* log: the (question, answer) pairs of the turns of a session whose
                   \* answer was complete, in that order
    threads,       \* per thread inside _add_to_history: its position and its pair
    cache          \* the dict `cache` in the closure of with_cache: key -> cached fields

vars == <<mode, pc, state, cfg, decision, calls, execs, raised, chain, frame,
          yielded, result, ended, turns, threads, cache>>

graphVars == <<state, cfg, decision, execs>>
chainVars == <<chain, frame, yielded, result, ended, turns, threads, cache>>
chainVars_but_result == <<chain, frame, yielded, ended, turns, threads, cache>>
chatUnused == <<chain, frame, yielded, result, ended, cache>>

----------------------------------------------------------------------------
(* Bounds of the model *)

MaxSteps == 3
MaxDocs == 3
MaxHistory == 2
MaxChunks == 2
MaxThreads == 2

(* k of create_retrieve_node / query: number of documents asked of the store *)
K == 4

----------------------------------------------------------------------------
(* Optional values and small helpers *)

None == <<>>
Some(x) == <<x>>
IsSome(o) == Len(o) = 1
Val(o) == o[1]
GetOr(o, d) == IF IsSome(o) THEN Val(o) ELSE d

Min(a, b) == IF a <= b THEN a ELSE b

RECURSIVE SumSeq(_)
SumSeq(s) == IF s = <<>> THEN 0 ELSE Head(s) + SumSeq(Tail(s))

RECURSIVE Concat(_)
(* "".join(parts) *)
Concat(parts) == IF parts = <<>> THEN <<>> ELSE Head(parts) \o Concat(Tail(parts))

RECURSIVE JoinWith(_, _)
(* sep.join(parts) *)
JoinWith(sep, parts) ==
    IF parts = <<>> THEN <<>>
    ELSE IF Len(parts) = 1 THEN Head(parts)
    ELSE Head(parts) \o sep \o JoinWith(sep, Tail(parts))

SeqsUpTo(S, n) == UNION {[1..m -> S] : m \in 0..n}

(* substring test on token texts: part occurs in text *)
Contains(text, part) ==
    \E i \in 0..(Len(text) - Len(part)) :
        \A j \in 1..Len(part) : text[i + j] = part[j]

(* Python truthiness of an optional text / optional list: None and empty are falsy *)
Truthy(o) == IsSome(o) /\ Val(o) # <<>>

----------------------------------------------------------------------------
(* Numbers: a float x in [0,1] is the integer x * Scale *)

Scale == 12 * 100
Pct(p) == (p * Scale) \div 100

(* retrieval_score < 0.6 in retrieve_node *)
NeedMoreThreshold == Pct(60)
(* retrieval_score < 0.5 in decide_node *)
RewriteThreshold == Pct(50)
(* state.get("retrieval_score", 0.5) in generate_node *)
DefaultRetrievalScore == Pct(50)
(* confidence is kept in units of 1/(10 * Scale) *)
ConfScale == 10 * Scale

----------------------------------------------------------------------------
(* Inputs *)

PronounTokens == {"it"}            \* stands for the pronouns "它", "他"
Questions == {<<>>, <<"q">>, <<"it", "q">>}
ChainQuestions == {<<"q1">>, <<"q2">>}
Causes == {<<"timeout">>, <<"refused">>}     \* str(e) of a collaborator fault

(* a Document: page_content and metadata["score"] (None when the store
   attaches no score) *)
DocScores == {None, Some(Pct(30)), Some(Pct(90))}
Documents == [page_content : {<<"c">>}, score : DocScores]
StoreResults == SeqsUpTo(Documents, Min(MaxDocs, K))

(* the i-th increment of a streamed answer; a blocking answer is the
   concatenation of the first n increments *)
ChunkAt(i) == <<ToString(i)>>
LLMTexts == {Concat([i \in 1..n |-> ChunkAt(i)]) : n \in 0..MaxChunks}

(* what vectorstore.similarity_search can do: return docs or raise *)
SearchOutcomes ==
    {[fault |-> None, docs |-> d] : d \in StoreResults}
    \cup {[fault |-> Some(c), docs |-> <<>>] : c \in Causes}

(* the chains read only page_content: their store returns nothing, one
   document or two documents, or raises *)
ChainStoreResults ==
    {<<>>,
     <<[page_content |-> <<"c">>, score |-> None]>>,
     <<[page_content |-> <<"c">>, score |-> None],
       [page_content |-> <<"d">>, score |-> None]>>}
ChainSearchOutcomes ==
    {[fault |-> None, docs |-> d] : d \in ChainStoreResults}
    \cup {[fault |-> Some(c), docs |-> <<>>] : c \in Causes}

(* what llm.generate can do: return a text or raise *)
LLMOutcomes ==
    {[fault |-> None, text |-> t] : t \in LLMTexts}
    \cup {[fault |-> Some(c), text |-> <<>>] : c \in Causes}

NoOutcome == [fault |-> None, text |-> <<>>]

BudgetValues == 1..MaxSteps
ScoreThresholds == {None, Some(Pct(70))}

----------------------------------------------------------------------------
(* AgentState and the graph nodes *)

(* create_initial_state(question, max_steps); keys the constructor does not
   set are missing from the dict, which .get() reads as None *)
create_initial_state(question, max_steps) ==
    [question          |-> question,
     retrieval_query   |-> None,
     retrieved_docs    |-> None,
     retrieval_score   |-> None,
     need_more_context |-> None,
     answer            |-> None,
     confidence_score  |-> None,
     error             |-> None,
     current_node      |-> None,
     step_count        |-> 0,
     max_steps         |-> max_steps]

(* fixed texts of the nodes *)
RetrieveFailedPrefix == <<"retrieve failed: ">>       \* "检索失败: "
GenerateFailedPrefix == <<"generate failed: ">>       \* "生成失败: "
NodeNotFoundAnswer == <<"sorry, nothing relevant found in the knowledge base">>
NodeApologyAnswer == <<"sorry, an error occurred while generating the answer">>
SourcesSuffix == <<"\n\nsources:\n", "- unknown source">>

(* docs kept by the score_threshold filter: metadata.get("score", 1.0) >= threshold *)
RECURSIVE FilterByScore(_, _)
FilterByScore(docs, threshold) ==
    IF docs = <<>> THEN <<>>
    ELSE LET d == Head(docs)
             rest == FilterByScore(Tail(docs), threshold)
         IN IF GetOr(d.score, Scale) >= threshold THEN <<d>> \o rest ELSE rest

(* step 4 computing the volume proxy min(len(docs) / k, 1.0) in every case *)
RetrievalScore_by_volume(docs, k) ==
    IF docs # <<>> THEN Min((Len(docs) * Scale) \div k, Scale) ELSE 0

(* step 4 of retrieve_node: the quality score of the retrieved docs *)
RetrievalScore(docs, k) ==
    IF docs # <<>>
    THEN IF IsSome(docs[1].score)
         THEN SumSeq([i \in 1..Len(docs) |-> GetOr(docs[i].score, 0)]) \div Len(docs)
         ELSE Min((Len(docs) * Scale) \div k, Scale)
    ELSE 0

(* query = state.get("retrieval_query") or state["question"] *)
RetrievalQueryOf(st) ==
    IF Truthy(st.retrieval_query) THEN Val(st.retrieval_query) ELSE st.question

(* retrieve_node whose except-clause records a fixed message without str(e) *)
retrieve_node_without_cause(st, k, score_threshold, res) ==
    IF IsSome(res.fault)
    THEN [st EXCEPT !.error = Some(RetrieveFailedPrefix),
                    !.retrieved_docs = Some(<<>>),
                    !.retrieval_score = Some(0),
                    !.need_more_context = Some(TRUE)]
    ELSE LET docs == IF IsSome(score_threshold)
                     THEN FilterByScore(res.docs, Val(score_threshold))
                     ELSE res.docs
             retrieval_score == RetrievalScore(docs, k)
         IN [st EXCEPT !.retrieved_docs = Some(docs),
                       !.retrieval_score = Some(retrieval_score),
                       !.current_node = Some("retrieve"),
                       !.step_count = st.step_count + 1,
                       !.need_more_context =
                           Some(retrieval_score < NeedMoreThreshold
                                \/ Len(docs) < k \div 2)]

(* the state retrieve_node returns, with the list it stores and the flag it
   sets on success given, for the variants below *)
RetrieveWith(st, k, res, docs, need_more) ==
    IF IsSome(res.fault)
    THEN [st EXCEPT !.error = Some(RetrieveFailedPrefix \o Val(res.fault)),
                    !.retrieved_docs = Some(<<>>),
                    !.retrieval_score = Some(0),
                    !.need_more_context = Some(TRUE)]
    ELSE [st EXCEPT !.retrieved_docs = Some(docs),
                    !.retrieval_score = Some(RetrievalScore(docs, k)),
                    !.current_node = Some("retrieve"),
                    !.step_count = st.step_count + 1,
                    !.need_more_context = Some(need_more)]

KeptDocs(docs, score_threshold) ==
    IF IsSome(score_threshold) THEN FilterByScore(docs, Val(score_threshold)) ELSE docs

(* retrieve_node setting need_more_context = retrieval_score < 0.6 alone *)
retrieve_node_score_only(st, k, score_threshold, res) ==
    LET docs == KeptDocs(res.docs, score_threshold)
    IN RetrieveWith(st, k, res, docs, RetrievalScore(docs, k) < NeedMoreThreshold)

(* retrieve_node extending the list of an earlier retrieval (docs appended) *)
retrieve_node_appending(st, k, score_threshold, res) ==
    LET docs == GetOr(st.retrieved_docs, <<>>) \o KeptDocs(res.docs, score_threshold)
    IN RetrieveWith(st, k, res, docs,
           RetrievalScore(docs, k) < NeedMoreThreshold \/ Len(docs) < k \div 2)

(* retrieve_node treating an empty result as a failure *)
retrieve_node_empty_is_failure(st, k, score_threshold, res) ==
    LET docs == KeptDocs(res.docs, score_threshold)
    IN IF docs = <<>>
       THEN RetrieveWith(st, k, [fault |-> Some(<<"no documents">>), docs |-> <<>>],
                         <<>>, TRUE)
       ELSE RetrieveWith(st, k, res, docs,
                RetrievalScore(docs, k) < NeedMoreThreshold \/ Len(docs) < k \div 2)

(* retrieve_node(state) of create_retrieve_node(vectorstore, k, score_threshold);
   res is what vectorstore.similarity_search did: res.fault is Some(str(e)) when
   it raised, else res.docs is what it returned *)
retrieve_node(st, k, score_threshold, res) ==
    IF IsSome(res.fault)
    THEN [st EXCEPT !.error = Some(RetrieveFailedPrefix \o Val(res.fault)),
                    !.retrieved_docs = Some(<<>>),
                    !.retrieval_score = Some(0),
                    !.need_more_context = Some(TRUE)]
    ELSE LET docs == IF IsSome(score_threshold)
                     THEN FilterByScore(res.docs, Val(score_threshold))
                     ELSE res.docs
             retrieval_score == RetrievalScore(docs, k)
         IN [st EXCEPT !.retrieved_docs = Some(docs),
                       !.retrieval_score = Some(retrieval_score),
                       !.current_node = Some("retrieve"),
                       !.step_count = st.step_count + 1,
                       !.need_more_context =
                           Some(retrieval_score < NeedMoreThreshold
                                \/ Len(docs) < k \div 2)]

(* "\n\n".join(f"[文档 {i+1}]\n{doc.page_content}" for i, doc in enumerate(docs)) *)
NodeContext(docs) ==
    JoinWith(<<"\n\n">>,
             [i \in 1..Len(docs) |-> <<"[doc ", ToString(i), "]\n">> \o docs[i].page_content])

(* template.format(context=context, question=question), default template *)
NodePrompt(context, question) ==
    <<"context:\n">> \o context \o <<"\nquestion:\n">> \o question \o <<"\nanswer:">>

(* docs = state.get("retrieved_docs", []) *)
DocsOf(st) == GetOr(st.retrieved_docs, <<>>)

(* generate_node calls llm.generate only when there are documents *)
GenerateCallsLLM(st) == DocsOf(st) # <<>>

(* generate_node whose except-clause sets the apology answer but no error *)
generate_node_without_error(st, include_sources, llm) ==
    IF ~GenerateCallsLLM(st)
    THEN [st EXCEPT !.answer = Some(NodeNotFoundAnswer),
                    !.confidence_score = Some(0),
                    !.current_node = Some("generate"),
                    !.step_count = st.step_count + 1]
    ELSE IF IsSome(llm.fault)
    THEN [st EXCEPT !.answer = Some(NodeApologyAnswer),
                    !.confidence_score = Some(0)]
    ELSE LET answer == IF include_sources THEN llm.text \o SourcesSuffix ELSE llm.text
             retrieval_score == GetOr(st.retrieval_score, DefaultRetrievalScore)
             answer_length_score == Min((Len(answer) * Scale) \div 100, Scale)
             confidence_score == retrieval_score * 6 + answer_length_score * 4
         IN [st EXCEPT !.answer = Some(answer),
                       !.confidence_score = Some(confidence_score),
                       !.current_node = Some("generate"),
                       !.step_count = st.step_count + 1]

(* generate_node(state) of create_generate_node(llm, prompt_template, include_sources);
   llm is what llm.generate did: llm.fault is Some(str(e)) when it raised, else
   llm.text is the answer it returned *)
generate_node(st, include_sources, llm) ==
    IF ~GenerateCallsLLM(st)
    THEN [st EXCEPT !.answer = Some(NodeNotFoundAnswer),
                    !.confidence_score = Some(0),
                    !.current_node = Some("generate"),
                    !.step_count = st.step_count + 1]
    ELSE IF IsSome(llm.fault)
    THEN [st EXCEPT !.error = Some(GenerateFailedPrefix \o Val(llm.fault)),
                    !.answer = Some(NodeApologyAnswer),
                    !.confidence_score = Some(0)]
    ELSE LET answer == IF include_sources THEN llm.text \o SourcesSuffix ELSE llm.text
             retrieval_score == GetOr(st.retrieval_score, DefaultRetrievalScore)
             \* min(len(answer) / 100, 1.0), in units of 1/Scale
             answer_length_score == Min((Len(answer) * Scale) \div 100, Scale)
             confidence_score == retrieval_score * 6 + answer_length_score * 4
         IN [st EXCEPT !.answer = Some(answer),
                       !.confidence_score = Some(confidence_score),
                       !.current_node = Some("generate"),
                       !.step_count = st.step_count + 1]

(* rewrite_query_node(state): pronoun resolution of the question into
   retrieval_query; the replaced pronoun becomes the token "entity" *)
HasPronoun(question) == \E i \in 1..Len(question) : question[i] \in PronounTokens
ResolvePronouns(question) ==
    [i \in 1..Len(question) |->
        IF question[i] \in PronounTokens THEN "entity" ELSE question[i]]

(* rewrite_query_node writing the rewritten text over the question *)
rewrite_query_node_overwriting_question(st) ==
    IF HasPronoun(st.question)
    THEN [st EXCEPT !.question = ResolvePronouns(st.question),
                    !.retrieval_query = Some(ResolvePronouns(st.question))]
    ELSE [st EXCEPT !.retrieval_query = Some(st.question)]

rewrite_query_node(st) ==
    IF HasPronoun(st.question)
    THEN [st EXCEPT !.retrieval_query = Some(ResolvePronouns(st.question))]
    ELSE [st EXCEPT !.retrieval_query = Some(st.question)]

(* rules 2 to 7 of decide_node, parameterised for the variants below *)
DecideAfterBudget(st, errorEnds, rewrites) ==
    IF Truthy(st.answer) THEN "end"
    ELSE IF errorEnds /\ Truthy(st.error) THEN "end"
    ELSE IF st.retrieved_docs = None THEN "retrieve"
    ELSE IF rewrites /\ GetOr(st.need_more_context, FALSE)
            /\ GetOr(st.retrieval_score, 0) < RewriteThreshold
         THEN "rewrite_query"
    ELSE IF Truthy(st.retrieved_docs) /\ ~Truthy(st.answer) THEN "generate"
    ELSE "end"

(* decide_node without decision 5 (no rewrite_query branch) *)
decide_node_without_rewrite(st) ==
    IF st.step_count >= st.max_steps THEN "end"
    ELSE DecideAfterBudget(st, TRUE, FALSE)

(* decide_node with the max_steps check placed after decision 4 *)
decide_node_budget_last(st) ==
    IF Truthy(st.answer) THEN "end"
    ELSE IF Truthy(st.error) THEN "end"
    ELSE IF st.retrieved_docs = None THEN "retrieve"
    ELSE IF st.step_count >= st.max_steps THEN "end"
    ELSE DecideAfterBudget(st, TRUE, TRUE)

(* decide_node comparing step_count > max_steps *)
decide_node_budget_off_by_one(st) ==
    IF st.step_count > st.max_steps THEN "end"
    ELSE DecideAfterBudget(st, TRUE, TRUE)

(* decide_node without decision 3 (error does not end the turn) *)
decide_node_ignoring_error(st) ==
    IF st.step_count >= st.max_steps THEN "end"
    ELSE DecideAfterBudget(st, FALSE, TRUE)

(* decide_node that sends a state without retrieved_docs to generate *)
decide_node_generating_unretrieved(st) ==
    IF st.step_count >= st.max_steps THEN "end"
    ELSE IF st.retrieved_docs = None /\ ~Truthy(st.answer) /\ ~Truthy(st.error)
         THEN "generate"
    ELSE DecideAfterBudget(st, TRUE, TRUE)

(* decide_node(state): the name of the next node *)
decide_node(st) ==
    IF st.step_count >= st.max_steps THEN "end"
    ELSE IF Truthy(st.answer) THEN "end"
    ELSE IF Truthy(st.error) THEN "end"
    ELSE IF st.retrieved_docs = None THEN "retrieve"
    ELSE IF GetOr(st.need_more_context, FALSE)
            /\ GetOr(st.retrieval_score, 0) < RewriteThreshold
         THEN "rewrite_query"
    ELSE IF Truthy(st.retrieved_docs) /\ ~Truthy(st.answer) THEN "generate"
    ELSE "end"

(* loop_control_decide_node(state): the decision it returns and the state dict
   it leaves behind; execution_path is None when the key is missing *)
loop_control_decide_node(st) ==
    LET execution_path == GetOr(st.execution_path, <<>>)
        n == Len(execution_path)
        appended(node) == [st EXCEPT !.execution_path = Some(Append(execution_path, node))]
    IN IF st.step_count >= st.max_steps
       THEN [decision |-> "force_end", state |-> st]
       ELSE IF n >= 3 /\ Cardinality({execution_path[i] : i \in (n - 2)..n}) = 1
       THEN [decision |-> "break_loop", state |-> st]
       ELSE IF ~Truthy(st.retrieved_docs)
       THEN [decision |-> "retrieve", state |-> appended("retrieve")]
       ELSE IF ~Truthy(st.answer)
       THEN [decision |-> "generate", state |-> appended("generate")]
       ELSE [decision |-> "end", state |-> st]

----------------------------------------------------------------------------
(* The dispatch loop over the graph nodes *)

MaxExecs == MaxSteps + 2
Bump(n) == IF n < MaxExecs THEN n + 1 ELSE n

Call(kind, arg, fault) == [kind |-> kind, arg |-> arg, fault |-> fault]

NoChain == [class |-> "none", chat_history |-> <<>>, max_history |-> 0]
NoFrame == [question |-> <<>>, prompt |-> <<>>, answer_parts |-> <<>>]
NoState == create_initial_state(<<>>, 0)
NoCfg == [k |-> K, score_threshold |-> None, include_sources |-> FALSE,
          question |-> <<>>, max_steps |-> 0]

(* arguments of create_retrieve_node, create_generate_node and
   create_initial_state for one turn *)
GraphConfigs ==
    [k : {K}, score_threshold : ScoreThresholds, include_sources : BOOLEAN,
     question : Questions, max_steps : BudgetValues]

InitGraph ==
    /\ mode = "graph"
    /\ pc = "decide"
    /\ cfg \in GraphConfigs
    /\ state = create_initial_state(cfg.question, cfg.max_steps)
    /\ decision = "none"
    /\ calls = <<>>
    /\ execs = 0
    /\ raised = None
    /\ chain = NoChain
    /\ frame = NoFrame
    /\ yielded = <<>>
    /\ result = None
    /\ ended = "none"
    /\ turns = <<>>
    /\ threads = <<>>
    /\ cache = <<>>

(* decision = decide(state); END returns, anything else dispatches *)
Decide ==
    /\ mode = "graph"
    /\ pc = "decide"
    /\ decision' = decide_node(state)
    /\ pc' = IF decision' = "end" THEN "done" ELSE decision'
    /\ UNCHANGED <<mode, state, cfg, calls, execs, raised, chainVars>>

Retrieve ==
    /\ mode = "graph"
    /\ pc = "retrieve"
    /\ \E res \in SearchOutcomes :
          /\ state' = retrieve_node(state, cfg.k, cfg.score_threshold, res)
          /\ calls' = Append(calls, Call("search", RetrievalQueryOf(state), res.fault))
    /\ execs' = Bump(execs)
    /\ pc' = "decide"
    /\ UNCHANGED <<mode, cfg, decision, raised, chainVars>>

Rewrite ==
    /\ mode = "graph"
    /\ pc = "rewrite_query"
    /\ state' = rewrite_query_node(state)
    /\ execs' = Bump(execs)
    /\ pc' = "decide"
    /\ UNCHANGED <<mode, cfg, decision, calls, raised, chainVars>>

Generate ==
    /\ mode = "graph"
    /\ pc = "generate"
    /\ IF GenerateCallsLLM(state)
       THEN \E llm \in LLMOutcomes :
              /\ state' = generate_node(state, cfg.include_sources, llm)
              /\ calls' = Append(calls,
                     Call("generate",
                          NodePrompt(NodeContext(DocsOf(state)), state.question),
                          llm.fault))
       ELSE /\ state' = generate_node(state, cfg.include_sources, NoOutcome)
            /\ calls' = calls
    /\ execs' = Bump(execs)
    /\ pc' = "decide"
    /\ UNCHANGED <<mode, cfg, decision, raised, chainVars>>

TurnNext == Decide \/ Retrieve \/ Rewrite \/ Generate

----------------------------------------------------------------------------
(* RAGChain and ConversationalRAGChain *)

ChainNotFoundAnswer == <<"sorry, nothing relevant found in the knowledge base.">>
FirstRoundPlaceholder == <<"(this is the first round)">>      \* "（这是第一轮对话）"

IsConversational(ch) == ch.class = "ConversationalRAGChain"

(* the message of the Exception the except-clause of each entry point raises *)
QueryFailedPrefix(ch) ==
    IF IsConversational(ch) THEN <<"conversational RAG query failed: ">>
    ELSE <<"RAG query failed: ">>
StreamFailedPrefix(ch) ==
    IF IsConversational(ch) THEN <<"streaming conversational RAG query failed: ">>
    ELSE <<"streaming RAG query failed: ">>

(* _format_history that lists the newest turn first *)
format_history_newest_first(chat_history) ==
    IF chat_history = <<>> THEN FirstRoundPlaceholder
    ELSE JoinWith(<<"\n">>,
           [n \in 1..(2 * Len(chat_history)) |->
              IF n % 2 = 1
              THEN <<"user: ">> \o chat_history[Len(chat_history) + 1 - (n + 1) \div 2][1]
              ELSE <<"assistant: ">> \o chat_history[Len(chat_history) + 1 - n \div 2][2]])

(* ConversationalRAGChain._format_history *)
format_history(chat_history) ==
    IF chat_history = <<>> THEN FirstRoundPlaceholder
    ELSE JoinWith(<<"\n">>,
           [n \in 1..(2 * Len(chat_history)) |->
              IF n % 2 = 1 THEN <<"user: ">> \o chat_history[(n + 1) \div 2][1]
              ELSE <<"assistant: ">> \o chat_history[n \div 2][2]])

(* _add_to_history that evicts only when the list is two over the limit *)
add_to_history_late_eviction(chat_history, max_history, question, answer) ==
    LET appended == Append(chat_history, <<question, answer>>)
    IN IF Len(appended) > max_history + 1 THEN Tail(appended) ELSE appended

(* _add_to_history that drops the newest turn (pop() instead of pop(0)) *)
add_to_history_dropping_newest(chat_history, max_history, question, answer) ==
    LET appended == Append(chat_history, <<question, answer>>)
    IN IF Len(appended) > max_history
       THEN SubSeq(appended, 1, Len(appended) - 1)
       ELSE appended

(* ConversationalRAGChain._add_to_history: append, then drop the oldest turn
   when the list is longer than max_history *)
add_to_history(chat_history, max_history, question, answer) ==
    LET appended == Append(chat_history, <<question, answer>>)
    IN IF Len(appended) > max_history THEN Tail(appended) ELSE appended

(* a chain that keeps only answers the model gave: the fixed answer of the
   no-documents branch is returned without being saved *)
AddTurn_only_model_answers(ch, question, answer) ==
    IF IsConversational(ch) /\ answer # ChainNotFoundAnswer
    THEN [ch EXCEPT !.chat_history =
              add_to_history(ch.chat_history, ch.max_history, question, answer)]
    ELSE ch

AddTurn(ch, question, answer) ==
    IF IsConversational(ch)
    THEN [ch EXCEPT !.chat_history =
              add_to_history(ch.chat_history, ch.max_history, question, answer)]
    ELSE ch

(* "\n\n".join(f"[文档{i}]\n{doc.page_content}" for i, doc in enumerate(docs, 1)) *)
ChainContext(docs) ==
    JoinWith(<<"\n\n">>,
             [i \in 1..Len(docs) |-> <<"[doc", ToString(i), "]\n">> \o docs[i].page_content])

(* self.prompt_template.format(...): {context}, {question}, and {history} in
   the conversational template *)
ChainPrompt(ch, docs, question) ==
    IF IsConversational(ch)
    THEN <<"history:\n">> \o format_history(ch.chat_history)
         \o <<"\ncontext:\n">> \o ChainContext(docs)
         \o <<"\ncurrent question:\n">> \o question \o <<"\nyour answer:">>
    ELSE <<"context:\n">> \o ChainContext(docs)
         \o <<"\nuser question:\n">> \o question \o <<"\nyour answer:">>

(* query(question, k): what the call leaves behind, given what the store
   (res) and the model (llm) did *)
query(ch, question, res, llm) ==
    LET search == Call("search", question, res.fault)
    IN IF IsSome(res.fault)
       THEN [chain |-> ch, result |-> None, ended |-> "raised",
             raised |-> Some(QueryFailedPrefix(ch) \o Val(res.fault)),
             calls |-> <<search>>]
       ELSE IF res.docs = <<>>
       THEN [chain |-> AddTurn(ch, question, ChainNotFoundAnswer),
             result |-> Some(ChainNotFoundAnswer), ended |-> "returned",
             raised |-> None, calls |-> <<search>>]
       ELSE LET prompt == ChainPrompt(ch, res.docs, question)
                generate == Call("generate", prompt, llm.fault)
            IN IF IsSome(llm.fault)
               THEN [chain |-> ch, result |-> None, ended |-> "raised",
                     raised |-> Some(QueryFailedPrefix(ch) \o Val(llm.fault)),
                     calls |-> <<search, generate>>]
               ELSE [chain |-> AddTurn(ch, question, llm.text),
                     result |-> Some(llm.text), ended |-> "returned",
                     raised |-> None, calls |-> <<search, generate>>]

(* the resumed streaming loop with its effects on the chain given: the chain
   left after a forwarded increment, the chain left after a fault, and the
   answer saved at exhaustion *)
StreamStepsWith(ch, fr, cl, yl, afterChunk, afterFault, savedAnswer) ==
    {[pc |-> "gen_chunk", chain |-> afterChunk,
      frame |-> [fr EXCEPT !.answer_parts = Append(@, ChunkAt(Len(@) + 1))],
      calls |-> cl,
      yielded |-> Append(yl, ChunkAt(Len(fr.answer_parts) + 1)),
      raised |-> None, ended |-> "none"] : n \in {m \in {0} : Len(fr.answer_parts) < MaxChunks}}
    \cup
    {[pc |-> "idle", chain |-> afterFault, frame |-> NoFrame,
      calls |-> [cl EXCEPT ![Len(cl)].fault = Some(c)],
      yielded |-> yl,
      raised |-> Some(StreamFailedPrefix(ch) \o c), ended |-> "raised"] : c \in Causes}
    \cup
    {[pc |-> "idle", chain |-> AddTurn(ch, fr.question, savedAnswer),
      frame |-> NoFrame, calls |-> cl, yielded |-> yl,
      raised |-> None, ended |-> "exhausted"]}

(* stream_query calling _add_to_history inside the loop, after every increment *)
StreamSteps_saving_each_increment(ch, fr, cl, yl) ==
    StreamStepsWith(ch, fr, cl, yl,
        AddTurn(ch, fr.question,
                Concat(Append(fr.answer_parts, ChunkAt(Len(fr.answer_parts) + 1)))),
        ch, Concat(fr.answer_parts))

(* stream_query whose except-clause saves the partial answer before raising *)
StreamSteps_saving_on_fault(ch, fr, cl, yl) ==
    StreamStepsWith(ch, fr, cl, yl, ch,
        AddTurn(ch, fr.question, Concat(fr.answer_parts)),
        Concat(fr.answer_parts))

(* stream_query saving the last increment (chunk) instead of the joined parts *)
StreamSteps_saving_last_increment(ch, fr, cl, yl) ==
    StreamStepsWith(ch, fr, cl, yl, ch, ch,
        IF fr.answer_parts = <<>> THEN <<>>
        ELSE fr.answer_parts[Len(fr.answer_parts)])

(* the loop of the parent's stream_query, which forwards the increments and
   saves nothing at exhaustion *)
StreamSteps_inherited(ch, fr, cl, yl) ==
    {[o EXCEPT !.chain = ch] :
        o \in StreamStepsWith(ch, fr, cl, yl, ch, ch, Concat(fr.answer_parts))}

(* the loop `for chunk in self.llm.stream_generate(prompt)` of stream_query,
   resumed: the model yields its next increment, raises, or is exhausted (then
   the full answer is joined and saved) *)
StreamSteps(ch, fr, cl, yl) ==
    {[pc |-> "gen_chunk", chain |-> ch,
      frame |-> [fr EXCEPT !.answer_parts = Append(@, ChunkAt(Len(@) + 1))],
      calls |-> cl,
      yielded |-> Append(yl, ChunkAt(Len(fr.answer_parts) + 1)),
      raised |-> None, ended |-> "none"] : n \in {m \in {0} : Len(fr.answer_parts) < MaxChunks}}
    \cup
    {[pc |-> "idle", chain |-> ch, frame |-> NoFrame,
      calls |-> [cl EXCEPT ![Len(cl)].fault = Some(c)],
      yielded |-> yl,
      raised |-> Some(StreamFailedPrefix(ch) \o c), ended |-> "raised"] : c \in Causes}
    \cup
    {[pc |-> "idle", chain |-> AddTurn(ch, fr.question, Concat(fr.answer_parts)),
      frame |-> NoFrame, calls |-> cl, yielded |-> yl,
      raised |-> None, ended |-> "exhausted"]}

(* the first next() on the generator: everything up to the first yield *)
StreamFirst(ch, question, res) ==
    LET search == Call("search", question, res.fault)
    IN IF IsSome(res.fault)
       THEN {[pc |-> "idle", chain |-> ch, frame |-> NoFrame, calls |-> <<search>>,
              yielded |-> <<>>,
              raised |-> Some(StreamFailedPrefix(ch) \o Val(res.fault)),
              ended |-> "raised"]}
       ELSE IF res.docs = <<>>
       THEN {[pc |-> "gen_notfound",
              chain |-> AddTurn(ch, question, ChainNotFoundAnswer),
              frame |-> [NoFrame EXCEPT !.question = question],
              calls |-> <<search>>, yielded |-> <<ChainNotFoundAnswer>>,
              raised |-> None, ended |-> "none"]}
       ELSE LET prompt == ChainPrompt(ch, res.docs, question)
            IN StreamSteps(ch,
                           [question |-> question, prompt |-> prompt,
                            answer_parts |-> <<>>],
                           <<search, Call("stream_generate", prompt, None)>>,
                           <<>>)

ChainObjects ==
    {[class |-> "RAGChain", chat_history |-> <<>>, max_history |-> 0]}
    \cup {[class |-> "ConversationalRAGChain", chat_history |-> <<>>, max_history |-> m] :
            m \in 1..MaxHistory}

InitChain ==
    /\ mode = "chain"
    /\ pc = "idle"
    /\ chain \in ChainObjects
    /\ state = NoState
    /\ cfg = NoCfg
    /\ decision = "none"
    /\ calls = <<>>
    /\ execs = 0
    /\ raised = None
    /\ frame = NoFrame
    /\ yielded = <<>>
    /\ result = None
    /\ ended = "none"
    /\ turns = <<>>
    /\ threads = <<>>
    /\ cache = <<>>

(* the caller of a chain: mode "chain" asks any question any number of times;
   mode "session" numbers its questions and logs, up to MaxTurns, the turns
   whose answer was complete *)
MaxTurns == MaxHistory + 2
ChainCall == mode \in {"chain", "session"}
NextQuestions ==
    IF mode = "session" THEN {<<"q", ToString(Len(turns) + 1)>>} ELSE ChainQuestions
MayStartTurn == mode = "session" => Len(turns) < MaxTurns
Logged(pair) ==
    IF mode = "session" /\ IsSome(pair) THEN Append(turns, Val(pair)) ELSE turns

(* the turn a resumption of stream_query completed, as its caller sees it: the
   question asked and the concatenation of the increments received *)
StreamCompleted(question, o) ==
    IF o.ended = "exhausted" \/ o.pc = "gen_notfound"
    THEN Some(<<question, Concat(o.yielded)>>)
    ELSE None

(* the model is called only when the store returned documents *)
QueryLLMOutcomes(res) ==
    IF IsSome(res.fault) \/ res.docs = <<>> THEN {NoOutcome} ELSE LLMOutcomes

Query ==
    /\ ChainCall
    /\ pc = "idle"
    /\ MayStartTurn
    /\ \E q \in NextQuestions, res \in ChainSearchOutcomes :
          \E llm \in QueryLLMOutcomes(res) :
              LET r == query(chain, q, res, llm)
              IN /\ chain' = r.chain
                 /\ result' = r.result
                 /\ raised' = r.raised
                 /\ ended' = r.ended
                 /\ calls' = r.calls
                 /\ turns' = Logged(IF r.ended = "returned"
                                    THEN Some(<<q, Val(r.result)>>) ELSE None)
    /\ yielded' = <<>>
    /\ UNCHANGED <<mode, pc, frame, threads, cache, graphVars>>

(* stream_query(question, k) only creates the generator *)
StreamCall ==
    /\ ChainCall
    /\ pc = "idle"
    /\ MayStartTurn
    /\ \E q \in NextQuestions : frame' = [NoFrame EXCEPT !.question = q]
    /\ pc' = "gen_created"
    /\ calls' = <<>>
    /\ yielded' = <<>>
    /\ result' = None
    /\ raised' = None
    /\ ended' = "none"
    /\ UNCHANGED <<mode, chain, turns, threads, cache, graphVars>>

Land(o) ==
    /\ pc' = o.pc
    /\ chain' = o.chain
    /\ frame' = o.frame
    /\ calls' = o.calls
    /\ yielded' = o.yielded
    /\ raised' = o.raised
    /\ ended' = o.ended
    /\ turns' = Logged(StreamCompleted(frame.question, o))
    /\ UNCHANGED <<mode, result, threads, cache, graphVars>>

StreamFirstNext ==
    /\ ChainCall
    /\ pc = "gen_created"
    /\ \E res \in ChainSearchOutcomes :
          \E o \in StreamFirst(chain, frame.question, res) : Land(o)

StreamNext ==
    /\ ChainCall
    /\ pc = "gen_chunk"
    /\ \E o \in StreamSteps(chain, frame, calls, yielded) : Land(o)

(* resuming after `yield answer` of the no-documents branch: return *)
StreamReturn ==
    /\ ChainCall
    /\ pc = "gen_notfound"
    /\ pc' = "idle"
    /\ frame' = NoFrame
    /\ ended' = "exhausted"
    /\ UNCHANGED <<mode, chain, calls, yielded, raised, result, turns, threads, cache,
                   graphVars>>

(* a generator with a finally-clause that saves what it has collected *)
StreamClose_saving_partial ==
    /\ ChainCall
    /\ pc \in {"gen_created", "gen_chunk", "gen_notfound"}
    /\ pc' = "idle"
    /\ frame' = NoFrame
    /\ ended' = "closed"
    /\ chain' = AddTurn(chain, frame.question, Concat(frame.answer_parts))
    /\ UNCHANGED <<mode, calls, yielded, raised, result, turns, threads, cache, graphVars>>

(* the caller stops iterating: the generator is closed where it is suspended
   (GeneratorExit is no Exception, so the except-clause does not run) *)
StreamClose ==
    /\ ChainCall
    /\ pc \in {"gen_created", "gen_chunk", "gen_notfound"}
    /\ pc' = "idle"
    /\ frame' = NoFrame
    /\ ended' = "closed"
    /\ UNCHANGED <<mode, chain, calls, yielded, raised, result, turns, threads, cache,
                   graphVars>>

ChainNext ==
    Query \/ StreamCall \/ StreamFirstNext \/ StreamNext \/ StreamReturn \/ StreamClose

----------------------------------------------------------------------------
(* decide_node applied to arbitrary states, as a unit test builds them *)

ArbitraryStates ==
    [question          : {<<"q">>},
     retrieval_query   : {None},
     retrieved_docs    : {None, Some(<<>>),
                          Some(<<[page_content |-> <<"c">>, score |-> None]>>)},
     retrieval_score   : {None, Some(0), Some(Pct(50)), Some(Scale)},
     need_more_context : {None, Some(FALSE), Some(TRUE)},
     answer            : {None, Some(<<>>), Some(<<"a">>)},
     confidence_score  : {None},
     error             : {None, Some(<<>>), Some(RetrieveFailedPrefix \o <<"timeout">>)},
     current_node      : {None},
     step_count        : 0..(MaxSteps + 1),
     max_steps         : BudgetValues,
     execution_path    : {None, Some(<<"retrieve", "retrieve", "retrieve">>)}]

InitDecide ==
    /\ mode = "decide"
    /\ pc = "test"
    /\ state \in ArbitraryStates
    /\ cfg = NoCfg
    /\ decision = "none"
    /\ calls = <<>>
    /\ execs = 0
    /\ raised = None
    /\ chain = NoChain
    /\ frame = NoFrame
    /\ yielded = <<>>
    /\ result = None
    /\ ended = "none"
    /\ turns = <<>>
    /\ threads = <<>>
    /\ cache = <<>>

ApplyDecide ==
    /\ mode = "decide"
    /\ pc = "test"
    /\ decision' = decide_node(state)
    /\ pc' = "tested"
    /\ UNCHANGED <<mode, state, cfg, calls, execs, raised, chainVars>>

ApplyLoopControlDecide ==
    /\ mode = "decide"
    /\ pc = "test"
    /\ LET r == loop_control_decide_node(state)
       IN /\ decision' = r.decision
          /\ state' = r.state
    /\ pc' = "tested_loop"
    /\ UNCHANGED <<mode, cfg, calls, execs, raised, chainVars>>

NextDecide == ApplyDecide \/ ApplyLoopControlDecide
SpecDecide == InitDecide /\ [][NextDecide]_vars

----------------------------------------------------------------------------
(* One ConversationalRAGChain and a caller that runs its turns one after the
   other, logging those whose answer was complete *)

SessionCapacities == 1..(MaxHistory + 1)

InitSession ==
    /\ mode = "session"
    /\ pc = "idle"
    /\ chain \in {[class |-> "ConversationalRAGChain", chat_history |-> <<>>,
                    max_history |-> m] : m \in SessionCapacities}
    /\ state = NoState
    /\ cfg = NoCfg
    /\ decision = "none"
    /\ calls = <<>>
    /\ execs = 0
    /\ raised = None
    /\ frame = NoFrame
    /\ yielded = <<>>
    /\ result = None
    /\ ended = "none"
    /\ turns = <<>>
    /\ threads = <<>>
    /\ cache = <<>>

SpecSession == InitSession /\ [][ChainNext]_vars

----------------------------------------------------------------------------
(* Several turns in flight on one ConversationalRAGChain: each thread has its
   answer and runs _add_to_history, which takes no lock; the interpreter may
   switch threads between its statements (append, the len() test, pop(0)) *)

Threads == 1..MaxThreads

(* the history left by n earlier turns *)
EarlierTurns(n) == [i \in 1..n |-> <<<<"q0", ToString(i)>>, <<"a0">>>>]

InitConcurrent ==
    /\ mode = "concurrent"
    /\ pc = "idle"
    /\ \E m \in 1..MaxHistory, n \in 0..MaxHistory :
          /\ n <= m
          /\ chain = [class |-> "ConversationalRAGChain",
                      chat_history |-> EarlierTurns(n), max_history |-> m]
          /\ turns = EarlierTurns(n)
    /\ threads \in [Threads -> [pos : {"append"},
                                pair : {<<q, <<"a">>>> : q \in ChainQuestions}]]
    /\ state = NoState
    /\ cfg = NoCfg
    /\ decision = "none"
    /\ calls = <<>>
    /\ execs = 0
    /\ raised = None
    /\ frame = NoFrame
    /\ yielded = <<>>
    /\ result = None
    /\ ended = "none"
    /\ cache = <<>>

ThreadFrame ==
    <<mode, pc, calls, raised, frame, yielded, result, ended, cache, graphVars>>

(* self.chat_history.append((question, answer)) *)
ThreadAppend(t) ==
    /\ mode = "concurrent"
    /\ threads[t].pos = "append"
    /\ chain' = [chain EXCEPT !.chat_history = Append(@, threads[t].pair)]
    /\ turns' = Append(turns, threads[t].pair)
    /\ threads' = [threads EXCEPT ![t].pos = "check"]
    /\ UNCHANGED ThreadFrame

(* if len(self.chat_history) > self.max_history: *)
ThreadCheck(t) ==
    /\ mode = "concurrent"
    /\ threads[t].pos = "check"
    /\ threads' = [threads EXCEPT ![t].pos =
                      IF Len(chain.chat_history) > chain.max_history
                      THEN "pop" ELSE "done"]
    /\ UNCHANGED <<chain, turns>>
    /\ UNCHANGED ThreadFrame

(* self.chat_history.pop(0) *)
ThreadPop(t) ==
    /\ mode = "concurrent"
    /\ threads[t].pos = "pop"
    /\ chain' = [chain EXCEPT !.chat_history = Tail(@)]
    /\ threads' = [threads EXCEPT ![t].pos = "done"]
    /\ UNCHANGED turns
    /\ UNCHANGED ThreadFrame

NextConcurrent == \E t \in Threads : ThreadAppend(t) \/ ThreadCheck(t) \/ ThreadPop(t)
SpecConcurrent == InitConcurrent /\ [][NextConcurrent]_vars

----------------------------------------------------------------------------
(* retrieve_node called once on a state, as test_retrieve_node calls it: the
   store is a stub with a canned outcome; the state is fresh or comes from an
   earlier retrieval of the same turn *)

TestScores == {None, Some(Pct(30)), Some(Pct(50)), Some(Pct(70)), Some(Pct(90))}
TestDocuments == [page_content : {<<"c">>}, score : TestScores]
TestSearchOutcomes ==
    {[fault |-> None, docs |-> d] : d \in SeqsUpTo(TestDocuments, Min(MaxDocs + 1, K))}
    \cup {[fault |-> Some(c), docs |-> <<>>] : c \in Causes}

TestQuestions == {<<>>, <<" ">>, <<"q">>}
TestRetrievalQueries == {None, Some(<<>>), Some(<<" ">>), Some(<<"rq">>)}

(* what an earlier retrieval of the turn returned *)
EarlierResult ==
    [fault |-> None, docs |-> <<[page_content |-> <<"c">>, score |-> Some(Pct(90))]>>]

SearchCall(st, res) ==
    [kind |-> "search", arg |-> RetrievalQueryOf(st), fault |-> res.fault,
     returned |-> res.docs]

InitRetrieve ==
    /\ mode = "retrieve"
    /\ pc = "test"
    /\ cfg \in [k : {K}, score_threshold : ScoreThresholds, include_sources : {FALSE},
                 question : TestQuestions, max_steps : {MaxSteps}]
    /\ \E rq \in TestRetrievalQueries, earlier \in BOOLEAN :
          LET fresh == [create_initial_state(cfg.question, cfg.max_steps)
                           EXCEPT !.retrieval_query = rq]
          IN IF earlier
             THEN /\ state = retrieve_node(fresh, cfg.k, cfg.score_threshold, EarlierResult)
                  /\ calls = <<SearchCall(fresh, EarlierResult)>>
             ELSE /\ state = fresh
                  /\ calls = <<>>
    /\ decision = "none"
    /\ execs = 0
    /\ raised = None
    /\ chain = NoChain
    /\ frame = NoFrame
    /\ yielded = <<>>
    /\ result = None
    /\ ended = "none"
    /\ turns = <<>>
    /\ threads = <<>>
    /\ cache = <<>>

RetrieveCall ==
    /\ mode = "retrieve"
    /\ pc = "test"
    /\ \E res \in TestSearchOutcomes :
          /\ state' = retrieve_node(state, cfg.k, cfg.score_threshold, res)
          /\ calls' = Append(calls, SearchCall(state, res))
    /\ pc' = "tested"
    /\ UNCHANGED <<mode, cfg, decision, execs, raised, chainVars>>

NextRetrieve == RetrieveCall
SpecRetrieve == InitRetrieve /\ [][NextRetrieve]_vars

----------------------------------------------------------------------------
(* A node wrapped with with_cache, called several times by one caller. State
   dicts are functions from the keys present to their values. *)

MaxInvocations == 3

CacheQuestions == {<<"q1">>, <<"q2">>}
CacheStoreResults ==
    {<<>>, <<[page_content |-> <<"c">>]>>, <<[page_content |-> <<"d">>]>>}
CacheSearchOutcomes ==
    {[fault |-> None, docs |-> d] : d \in CacheStoreResults}
    \cup {[fault |-> Some(c), docs |-> <<>>] : c \in Causes}

(* the dicts a caller passes in: the question alone, or the question with a
   retrieved_docs key already present *)
CacheInputStates ==
    {("question" :> q) : q \in CacheQuestions}
    \cup {("question" :> q) @@ ("retrieved_docs" :> <<>>) : q \in CacheQuestions}

(* dict.update and item assignment: the right-hand entries win *)
Updated(d, entries) == entries @@ d

(* the decorated retrieve_node: it assigns state["retrieved_docs"] on the dict
   it was given and returns that same dict, so after the call `state` and
   `result` are one object *)
cached_retrieve_node(st, docs) ==
    LET written == Updated(st, "retrieved_docs" :> docs)
    IN [result |-> written, state |-> written]

(* wrapper(state) of with_cache(lambda state: state["question"]) *)
with_cache(cch, st, res) ==
    LET key == st["question"]
        search == [kind |-> "search", arg |-> st["question"], fault |-> res.fault,
                   returned |-> res.docs]
    IN IF key \in DOMAIN cch
       THEN [pc |-> "hit", cache |-> cch, state |-> Updated(st, cch[key]),
             calls |-> <<>>, raised |-> None]
       ELSE IF IsSome(res.fault)
       THEN [pc |-> "raised", cache |-> cch, state |-> st,
             calls |-> <<search>>, raised |-> res.fault]
       ELSE LET r == cached_retrieve_node(st, res.docs)
                new == [k \in {f \in DOMAIN r.result : f \notin DOMAIN r.state} |->
                          r.result[k]]
            IN [pc |-> "miss", cache |-> Updated(cch, key :> new), state |-> r.result,
                calls |-> <<search>>, raised |-> None]

InitCache ==
    /\ mode = "cache"
    /\ pc = "ready"
    /\ state = NoState
    /\ cfg = NoCfg
    /\ decision = "none"
    /\ calls = <<>>
    /\ execs = 0
    /\ raised = None
    /\ chain = NoChain
    /\ frame = NoFrame
    /\ yielded = <<>>
    /\ result = None
    /\ ended = "none"
    /\ turns = <<>>
    /\ threads = <<>>
    /\ cache = <<>>

(* one call of the wrapped node; `calls` keeps the searches of all invocations *)
CachedCall ==
    /\ mode = "cache"
    /\ execs < MaxInvocations
    /\ \E st \in CacheInputStates, res \in CacheSearchOutcomes :
          LET r == with_cache(cache, st, res)
          IN /\ pc' = r.pc
             /\ cache' = r.cache
             /\ state' = r.state
             /\ calls' = calls \o r.calls
             /\ raised' = r.raised
    /\ execs' = execs + 1
    /\ UNCHANGED <<mode, cfg, decision, chain, frame, yielded, result, ended, turns,
                   threads>>

NextCache == CachedCall
SpecCache == InitCache /\ [][NextCache]_vars

----------------------------------------------------------------------------
(* A retrieval node that retries: retrieve_node decorated with with_retry, and
   the node built by create_retrieve_with_retry. One action per pass of the
   loop `for attempt in range(max_retries)`. *)

MaxRetries == 3

RetryVariants == {"with_retry", "create_retrieve_with_retry"}
RetryStoreResults == {<<>>, <<[page_content |-> <<"c">>]>>}
RetrySearchOutcomes ==
    {[fault |-> None, docs |-> d] : d \in RetryStoreResults}
    \cup {[fault |-> Some(c), docs |-> <<>>] : c \in Causes}

(* the state dicts a caller passes in: error is absent/None or left by an
   earlier node *)
RetryInputStates ==
    [question : {<<"q">>}, retrieved_docs : {None},
     error : {None, Some(<<"earlier: ">>)}]

RetryFailedPrefix(variant, n) ==
    IF variant = "with_retry" THEN <<"failed after ", ToString(n), " retries: ">>
    ELSE <<"still failing after ", ToString(n), " retries: ">>

(* a pass that records the error on the first failure instead of the last *)
retry_attempt_giving_up_early(variant, st, n, attempt, res) ==
    IF ~IsSome(res.fault)
    THEN [pc |-> "returned", attempt |-> attempt,
          state |-> [st EXCEPT !.retrieved_docs = Some(res.docs)]]
    ELSE [pc |-> "returned", attempt |-> attempt,
          state |-> [st EXCEPT !.error =
                        Some(RetryFailedPrefix(variant, n) \o Val(res.fault))]]

(* one pass of the loop body with loop variable `attempt` (from 0): the try
   block and the except-clause *)
retry_attempt(variant, st, n, attempt, res) ==
    IF ~IsSome(res.fault)
    THEN [pc |-> "returned", attempt |-> attempt,
          state |-> IF variant = "with_retry"
                    THEN [st EXCEPT !.retrieved_docs = Some(res.docs)]
                    ELSE [st EXCEPT !.retrieved_docs = Some(res.docs), !.error = None]]
    ELSE IF attempt = n - 1
    THEN [pc |-> "returned", attempt |-> attempt,
          state |-> IF variant = "with_retry"
                    THEN [st EXCEPT !.error =
                             Some(RetryFailedPrefix(variant, n) \o Val(res.fault))]
                    ELSE [st EXCEPT !.error =
                             Some(RetryFailedPrefix(variant, n) \o Val(res.fault)),
                                    !.retrieved_docs = Some(<<>>)]]
    ELSE [pc |-> "attempt", attempt |-> attempt + 1, state |-> st]

(* cfg keeps the arguments of the invocation: the variant, max_retries and the
   state dict as it was passed in; execs is the loop variable *)
InitRetry ==
    /\ mode = "retry"
    /\ pc = "attempt"
    /\ cfg \in [variant : RetryVariants, max_retries : 0..MaxRetries,
                 input : RetryInputStates]
    /\ state = cfg.input
    /\ decision = "none"
    /\ calls = <<>>
    /\ execs = 0
    /\ raised = None
    /\ chain = NoChain
    /\ frame = NoFrame
    /\ yielded = <<>>
    /\ result = None
    /\ ended = "none"
    /\ turns = <<>>
    /\ threads = <<>>
    /\ cache = <<>>

RetryAttempt ==
    /\ mode = "retry"
    /\ pc = "attempt"
    /\ execs < cfg.max_retries
    /\ \E res \in RetrySearchOutcomes :
          LET r == retry_attempt(cfg.variant, state, cfg.max_retries, execs, res)
          IN /\ pc' = r.pc
             /\ execs' = r.attempt
             /\ state' = r.state
             /\ calls' = Append(calls, Call("search", state.question, res.fault))
             /\ result' = IF r.pc = "returned" THEN Some(r.state) ELSE None
    /\ UNCHANGED <<mode, cfg, decision, raised, chainVars_but_result>>

(* range(max_retries) is exhausted without a return: only when max_retries
   is not positive. with_retry's wrapper then falls off its end and returns
   None; the built node returns state *)
RetryLoopEnd ==
    /\ mode = "retry"
    /\ pc = "attempt"
    /\ execs >= cfg.max_retries
    /\ pc' = "returned"
    /\ result' = IF cfg.variant = "with_retry" THEN None ELSE Some(state)
    /\ UNCHANGED <<mode, state, cfg, decision, calls, execs, raised,
                   chainVars_but_result>>

NextRetry == RetryAttempt \/ RetryLoopEnd
SpecRetry == InitRetry /\ [][NextRetry]_vars

----------------------------------------------------------------------------
(* The chat front end: the store useChatStore and ChatInput.handleSend.
   In mode "chat": state is the store, cfg the values of the store that the
   last render of ChatInput captured, threads the handleSend invocations in
   their order, execs the number of conversation ids generated, calls the
   chat requests issued, turns one entry per sidebar action the user has made. A message is (role, turn, content) with turn the
   number of the handleSend invocation it belongs to. *)

MaxSends == 2
MaxSidebarActions == 1

ChatModes == {"general", "rag"}
KnowledgeBases == {None, Some("kb")}

Message(role, turn, content) == [role |-> role, turn |-> turn, content |-> content]

NewConversation(id, messages, chatMode, kb) ==
    [id |-> id, messages |-> messages, mode |-> chatMode, selectedKB |-> kb]

(* conversations.find(c => c.id === id), as the sequence of the matches *)
FindConversation(conversations, id) ==
    SelectSeq(conversations, LAMBDA conv : conv.id = id)

(* addMessage(message); id is the conversation id generated when there is no
   current conversation *)
addMessage(s, id, message) ==
    IF ~IsSome(s.currentConversationId)
    THEN [s EXCEPT !.conversations =
                      <<NewConversation(id, <<message>>, s.currentMode, s.selectedKB)>> \o @,
                   !.currentConversationId = Some(id),
                   !.messages = <<message>>]
    ELSE LET currentConvId == Val(s.currentConversationId)
             updatedConversations ==
                 [i \in DOMAIN s.conversations |->
                     IF s.conversations[i].id = currentConvId
                     THEN [s.conversations[i] EXCEPT !.messages = Append(@, message)]
                     ELSE s.conversations[i]]
             currentConv == FindConversation(updatedConversations, currentConvId)
         IN [s EXCEPT !.conversations = updatedConversations,
                      !.messages = IF currentConv = <<>> THEN <<>>
                                   ELSE currentConv[1].messages]

clearMessages(s) ==
    IF IsSome(s.currentConversationId)
    THEN [s EXCEPT !.conversations =
                      [i \in DOMAIN @ |->
                          IF @[i].id = Val(s.currentConversationId)
                          THEN [@[i] EXCEPT !.messages = <<>>] ELSE @[i]],
                   !.messages = <<>>]
    ELSE [s EXCEPT !.messages = <<>>]

setLoading(s, loading) == [s EXCEPT !.isLoading = loading]

createConversation(s, newId) ==
    [s EXCEPT !.conversations = <<NewConversation(newId, <<>>, "general", None)>> \o @,
              !.currentConversationId = Some(newId),
              !.messages = <<>>,
              !.currentMode = "general",
              !.selectedKB = None]

switchConversation(s, conversationId) ==
    LET conv == FindConversation(s.conversations, conversationId)
    IN IF conv # <<>>
       THEN [s EXCEPT !.currentConversationId = Some(conversationId),
                      !.messages = conv[1].messages,
                      !.currentMode = conv[1].mode,
                      !.selectedKB = conv[1].selectedKB]
       ELSE s

(* deleteConversation that only removes the conversation from the list *)
deleteConversation_keeping_current(s, conversationId) ==
    [s EXCEPT !.conversations = SelectSeq(@, LAMBDA conv : conv.id # conversationId)]

deleteConversation(s, conversationId) ==
    LET updatedConversations ==
            SelectSeq(s.conversations, LAMBDA conv : conv.id # conversationId)
    IN IF s.currentConversationId = Some(conversationId)
       THEN IF Len(updatedConversations) > 0
            THEN LET firstConv == updatedConversations[1]
                 IN [s EXCEPT !.conversations = updatedConversations,
                              !.currentConversationId = Some(firstConv.id),
                              !.messages = firstConv.messages,
                              !.currentMode = firstConv.mode,
                              !.selectedKB = firstConv.selectedKB]
            ELSE [s EXCEPT !.conversations = <<>>,
                           !.currentConversationId = None,
                           !.messages = <<>>,
                           !.currentMode = "general",
                           !.selectedKB = None]
       ELSE [s EXCEPT !.conversations = updatedConversations]

clearAllConversations(s, newConvId) ==
    [s EXCEPT !.conversations = <<NewConversation(newConvId, <<>>, "general", None)>>,
              !.currentConversationId = Some(newConvId),
              !.messages = <<>>,
              !.currentMode = "general",
              !.selectedKB = None]

(* the values of the store a render of ChatInput captures in handleSend *)
Rendered(s) ==
    [isLoading |-> s.isLoading, currentMode |-> s.currentMode, selectedKB |-> s.selectedKB]

(* handleSend from its call to its first await or to its return: the store it
   leaves, the request it issued (none on the early returns) and the record
   of the invocation. `closure` holds the values captured by the render,
   `images` tells whether images were pending *)
handleSend(s, closure, turn, images, newId) ==
    LET asked == setLoading(addMessage(s, newId, Message("user", turn, "question")),
                            TRUE)
        received == asked.currentConversationId
        refused(content) ==
            [store |-> setLoading(setLoading(
                          addMessage(asked, newId, Message("system", turn, content)),
                          FALSE), FALSE),
             requests |-> <<>>,
             invocation |-> [pos |-> "finished", conv |-> received]]
        requested(api) ==
            [store |-> asked,
             requests |-> <<Call(api, turn, None)>>,
             invocation |-> [pos |-> "awaiting", conv |-> received]]
    IN IF closure.currentMode = "rag"
       THEN IF images THEN refused("rag has no images")
            ELSE IF ~IsSome(closure.selectedKB) THEN refused("select a knowledge base")
            ELSE requested("chat")
       ELSE requested("chatGeneral")

(* handleSend whose catch-clause is not followed by a finally-clause *)
handleSendSettled_without_finally(s, turn, failed, newId) ==
    IF failed
    THEN [store |-> addMessage(s, newId, Message("assistant", turn, "error")),
          pos |-> "failed"]
    ELSE [store |-> setLoading(addMessage(s, newId, Message("assistant", turn, "answer")),
                               FALSE),
          pos |-> "finished"]

(* handleSend resumed when its request settled: the reply or the error
   message is added, then the finally-clause runs *)
handleSendSettled(s, turn, failed, newId) ==
    [store |-> setLoading(
                  addMessage(s, newId,
                             Message("assistant", turn,
                                     IF failed THEN "error" ELSE "answer")),
                  FALSE),
     pos |-> "finished"]

(* conversations loaded from storage when the store is created: none, or one
   the user left behind; the first one is current *)
StoredConversations ==
    {<<>>} \cup {<<NewConversation(1, <<>>, m, kb)>> : m \in ChatModes, kb \in KnowledgeBases}

InitChat ==
    /\ mode = "chat"
    /\ pc = "mounted"
    /\ \E conversations \in StoredConversations :
          /\ state = [conversations |-> conversations,
                      currentConversationId |->
                          IF Len(conversations) > 0 THEN Some(conversations[1].id)
                          ELSE None,
                      messages |-> IF Len(conversations) > 0
                                   THEN conversations[1].messages ELSE <<>>,
                      currentMode |-> IF Len(conversations) > 0
                                      THEN conversations[1].mode ELSE "general",
                      selectedKB |-> IF Len(conversations) > 0
                                     THEN conversations[1].selectedKB ELSE None,
                      isLoading |-> FALSE]
          /\ execs = Len(conversations)
    /\ cfg = Rendered(state)
    /\ decision = "none"
    /\ calls = <<>>
    /\ raised = None
    /\ chain = NoChain
    /\ frame = NoFrame
    /\ yielded = <<>>
    /\ result = None
    /\ ended = "none"
    /\ turns = <<>>
    /\ threads = <<>>
    /\ cache = <<>>

ChatFrame == <<mode, pc, decision, raised, chatUnused>>

(* the user presses Enter or clicks the send button with some input typed *)
HandleSend ==
    /\ mode = "chat"
    /\ Len(threads) < MaxSends
    /\ ~cfg.isLoading
    /\ \E images \in BOOLEAN :
          LET r == handleSend(state, cfg, Len(threads) + 1, images, execs + 1)
          IN /\ state' = r.store
             /\ calls' = calls \o r.requests
             /\ threads' = Append(threads, r.invocation)
             /\ execs' = IF IsSome(state.currentConversationId) THEN execs ELSE execs + 1
    /\ UNCHANGED <<cfg, turns, ChatFrame>>

(* the request of an invocation resolves or rejects *)
RequestSettles ==
    /\ mode = "chat"
    /\ \E turn \in DOMAIN threads, failed \in BOOLEAN :
          /\ threads[turn].pos = "awaiting"
          /\ LET r == handleSendSettled(state, turn, failed, execs + 1)
             IN /\ state' = r.store
                /\ threads' = [threads EXCEPT ![turn].pos = r.pos]
    /\ execs' = IF IsSome(state.currentConversationId) THEN execs ELSE execs + 1
    /\ UNCHANGED <<cfg, calls, turns, ChatFrame>>

(* React renders ChatInput again after the store changed *)
Render ==
    /\ mode = "chat"
    /\ cfg # Rendered(state)
    /\ cfg' = Rendered(state)
    /\ UNCHANGED <<state, calls, execs, threads, turns, ChatFrame>>

(* the user acts on the sidebar: the effect of the store action called *)
SidebarAction(s) ==
    /\ mode = "chat"
    /\ Len(turns) < MaxSidebarActions
    /\ state' = s
    /\ turns' = Append(turns, "sidebar")
    /\ UNCHANGED <<cfg, calls, threads, ChatFrame>>

CreateConversation ==
    /\ SidebarAction(createConversation(state, execs + 1))
    /\ execs' = execs + 1

SwitchConversation ==
    /\ \E id \in 1..execs :
          SidebarAction(switchConversation(state, id))
    /\ execs' = execs

DeleteConversation ==
    /\ \E id \in 1..execs :
          SidebarAction(deleteConversation(state, id))
    /\ execs' = execs

ClearMessages ==
    /\ SidebarAction(clearMessages(state))
    /\ execs' = execs

ClearAllConversations ==
    /\ SidebarAction(clearAllConversations(state, execs + 1))
    /\ execs' = execs + 1

NextChat ==
    \/ HandleSend \/ RequestSettles \/ Render
    \/ CreateConversation \/ SwitchConversation \/ DeleteConversation
    \/ ClearMessages \/ ClearAllConversations

SpecChat == InitChat /\ [][NextChat]_vars

(* a request in flight settles: the HTTP client resolves or rejects *)
FairSpecChat == SpecChat /\ WF_vars(RequestSettles)

----------------------------------------------------------------------------
(* The hook useTheme. Every component that calls it holds its own `theme`
   state. In mode "theme": state.theme maps each component to its theme
   (None while unmounted), state.pending is the set of components whose
   effect has not run since their theme last changed, state.stored the
   localStorage entry and state.root the class on the document root. *)

Themes == {"light", "dark"}
AlwaysMounted == {"App", "Sidebar", "ChatInput"}
ThemeComponents == AlwaysMounted \cup {"DocumentManager"}

(* the initializer of useState: the stored theme, or 'dark' *)
InitialTheme(stored) == IF IsSome(stored) THEN Val(stored) ELSE "dark"

(* toggleTheme: setTheme(prev => prev === 'dark' ? 'light' : 'dark') *)
toggleTheme(prev) == IF prev = "dark" THEN "light" ELSE "dark"

Mounted(s) == {component \in ThemeComponents : IsSome(s.theme[component])}

InitTheme ==
    /\ mode = "theme"
    /\ pc = "mounted"
    /\ \E stored \in {None} \cup {Some(t) : t \in Themes} :
          state = [theme |-> [component \in ThemeComponents |->
                                 IF component \in AlwaysMounted
                                 THEN Some(InitialTheme(stored)) ELSE None],
                   pending |-> AlwaysMounted,
                   stored |-> stored,
                   root |-> None]
    /\ cfg = NoCfg
    /\ decision = "none"
    /\ calls = <<>>
    /\ execs = 0
    /\ raised = None
    /\ chain = NoChain
    /\ frame = NoFrame
    /\ yielded = <<>>
    /\ result = None
    /\ ended = "none"
    /\ turns = <<>>
    /\ threads = <<>>
    /\ cache = <<>>

ThemeStep(s) ==
    /\ mode = "theme"
    /\ state' = s
    /\ UNCHANGED <<mode, pc, cfg, decision, calls, execs, raised, chainVars>>

(* the effect of a component runs: the class of the document root and the
   stored theme are set from that component's theme *)
RunThemeEffect ==
    \E component \in state.pending :
        ThemeStep([state EXCEPT !.pending = @ \ {component},
                                !.root = state.theme[component],
                                !.stored = state.theme[component]])

(* the theme button of the sidebar is clicked *)
ToggleTheme ==
    /\ IsSome(state.theme["Sidebar"])
    /\ ThemeStep([state EXCEPT !.theme["Sidebar"] = Some(toggleTheme(Val(@))),
                               !.pending = @ \cup {"Sidebar"}])

(* the document manager is opened: its useTheme reads the stored theme *)
MountDocumentManager ==
    /\ ~IsSome(state.theme["DocumentManager"])
    /\ ThemeStep([state EXCEPT !.theme["DocumentManager"] =
                                   Some(InitialTheme(state.stored)),
                               !.pending = @ \cup {"DocumentManager"}])

(* the document manager is closed; an effect that has not run is dropped *)
UnmountDocumentManager ==
    /\ IsSome(state.theme["DocumentManager"])
    /\ ThemeStep([state EXCEPT !.theme["DocumentManager"] = None,
                               !.pending = @ \ {"DocumentManager"}])

NextTheme ==
    RunThemeEffect \/ ToggleTheme \/ MountDocumentManager \/ UnmountDocumentManager

SpecTheme == InitTheme /\ [][NextTheme]_vars

----------------------------------------------------------------------------
Init == InitGraph \/ InitChain
Next == TurnNext \/ ChainNext
Spec == Init /\ [][Next]_vars

(* the dispatch loop is sequential code: it keeps running until it returns *)
FairSpec == Spec /\ WF_vars(TurnNext)

----------------------------------------------------------------------------
(* Properties *)

GraphTurn == mode = "graph"
TurnEnded == mode = "graph" /\ pc = "done"
ConversationalSession == mode = "chain" /\ IsConversational(chain)

SearchFaults ==
    {Val(calls[i].fault) : i \in {j \in DOMAIN calls :
        calls[j].kind = "search" /\ IsSome(calls[j].fault)}}
LLMFaults ==
    {Val(calls[i].fault) : i \in {j \in DOMAIN calls :
        calls[j].kind \in {"generate", "stream_generate"} /\ IsSome(calls[j].fault)}}
LLMCalled == \E i \in DOMAIN calls : calls[i].kind \in {"generate", "stream_generate"}

AnswerPresent == IsSome(state.answer)
ErrorPresent == IsSome(state.error)
BudgetExhausted ==
    ~AnswerPresent /\ ~ErrorPresent /\ state.step_count = state.max_steps

CountTrue(bs) == Cardinality({i \in DOMAIN bs : bs[i]})

(* C1: a turn executes at most step_budget steps before the END decision
   (stated for the executions counted so far: their number never exceeds
   max_steps) *)
C1_AtMostBudgetExecutions ==
    (GraphTurn /\ state.question # <<>>) => execs <= state.max_steps

(* C2 as stated: at the end of a turn exactly one of {answer present, error
   present, both absent with step_count = step_budget} holds *)
C2_ExactlyOneTerminalField ==
    (TurnEnded /\ state.question # <<>>) =>
        CountTrue(<<AnswerPresent, ErrorPresent, BudgetExhausted>>) = 1

(* C2 amended: at the end of a turn exactly one of {answer present with error
   absent, error present, both absent with step_count = step_budget} holds;
   answer and error are present together only after a failed generation, where
   the answer is the fixed apology *)
C2_TerminalFields ==
    TurnEnded =>
        /\ CountTrue(<<AnswerPresent /\ ~ErrorPresent, ErrorPresent, BudgetExhausted>>) = 1
        /\ (AnswerPresent /\ ErrorPresent) =>
               /\ state.answer = Some(NodeApologyAnswer)
               /\ Contains(Val(state.error), GenerateFailedPrefix)

C2_Witness == TurnEnded /\ AnswerPresent /\ ErrorPresent

(* C3: when the store raises on search, no exception escapes the turn, error
   holds a message containing the failure description, and the next decision
   is END *)
C3_SearchFaultContained ==
    GraphTurn =>
        \A cause \in SearchFaults :
            /\ raised = None
            /\ ErrorPresent
            /\ Contains(Val(state.error), cause)
            /\ pc \in {"decide", "done"}
            /\ decide_node(state) = "end"

C3_Witness == TurnEnded /\ SearchFaults # {} /\ raised = None

(* C4 as stated: when the language model raises, no exception leaves the
   entry point, and a graph turn has error set *)
C4_NoLLMFaultEscapes ==
    LLMFaults # {} => (raised = None /\ (GraphTurn => ErrorPresent))

(* C4 amended: when llm.generate raises inside generate_node, no exception
   leaves the turn, error holds the cause and the next decision is END; when
   the model raises inside RAGChain / ConversationalRAGChain query or
   stream_query (before the first increment or mid-stream), the call ends by
   raising an Exception whose message contains the cause *)
C4_LLMFaultOutcome ==
    \A cause \in LLMFaults :
        IF GraphTurn
        THEN /\ raised = None
             /\ ErrorPresent
             /\ Contains(Val(state.error), cause)
             /\ pc \in {"decide", "done"}
             /\ decide_node(state) = "end"
        ELSE /\ pc = "idle"
             /\ ended = "raised"
             /\ IsSome(raised)
             /\ Contains(Val(raised), cause)

C4_Witness ==
    mode = "chain" /\ LLMFaults # {} /\ yielded # <<>> /\ ended = "raised"

(* C5: with a store that returns no documents (and budget for a second
   step), the turn ends with the fixed not-found answer, confidence 0.0 and
   no language-model call *)
C5_EmptyStoreAnswered ==
    (GraphTurn /\ state.question # <<>> /\ state.max_steps >= 2
        /\ cfg.score_threshold = None /\ state.retrieved_docs = Some(<<>>) /\ ~ErrorPresent)
    ~> (TurnEnded /\ state.answer = Some(NodeNotFoundAnswer)
        /\ state.confidence_score = Some(0) /\ ~LLMCalled)

(* C6: decide returns END for every state with step_count >= step_budget,
   whatever answer, error, retrieved_docs and need_more_context are *)
C6_BudgetDominates ==
    (mode = "decide" /\ pc = "tested" /\ state.step_count >= state.max_steps)
        => decision = "end"

C6_Witness ==
    /\ mode = "decide" /\ pc = "tested"
    /\ state.step_count = state.max_steps
    /\ Truthy(state.answer) /\ Truthy(state.error) /\ state.retrieved_docs = None
    /\ decision = "end"

(* C7: every step invocation increases step_count by exactly 1, so
   step_count equals the number of steps executed *)
C7_StepCountCountsSteps ==
    (GraphTurn /\ state.question # <<>> /\ execs < MaxExecs) => state.step_count = execs

(* C8: step_count never exceeds step_budget, and step_budget keeps the value
   the turn started with *)
C8_WithinBudget ==
    GraphTurn =>
        /\ state.step_count <= state.max_steps
        /\ state.max_steps = cfg.max_steps

C8_Witness ==
    TurnEnded /\ state.step_count = state.max_steps /\ state.max_steps >= 2

(* C9: once error is set the decision is END and nothing further happens in
   the turn: no step runs, no collaborator is called, the state stays *)
C9_NoRetryAfterError ==
    [][(GraphTurn /\ ErrorPresent) =>
          /\ decide_node(state) = "end"
          /\ calls' = calls
          /\ execs' = execs
          /\ state' = state]_vars

C9_Witness ==
    TurnEnded /\ ErrorPresent /\ state.step_count < state.max_steps /\ execs >= 1

(* C10: the chat history of a session never holds more than max_history
   turns *)
C10_HistoryBounded ==
    ConversationalSession => Len(chain.chat_history) <= chain.max_history

(* a query at capacity: its prompt showed the stored q1 turn, and afterwards
   only the new q2 turn is held *)
C10_Witness ==
    /\ ConversationalSession
    /\ chain.max_history = 1
    /\ ended = "returned"
    /\ Len(calls) = 2
    /\ Contains(calls[2].arg, <<"user: ", "q1">>)
    /\ Len(chain.chat_history) = 1
    /\ chain.chat_history[1][1] = <<"q2">>

LastN(s, n) == SubSeq(s, Len(s) - n + 1, Len(s))

(* C11: after n sequentially completed turns on a session with capacity c the
   chat history holds exactly the last min(n, c) (question, answer) pairs, in
   completion order *)
C11_MemoryIsLastTurns ==
    mode = "session" =>
        chain.chat_history = LastN(turns, Min(Len(turns), chain.max_history))

C11_Witness ==
    /\ mode = "session" /\ pc = "idle"
    /\ chain.max_history = 3 /\ Len(turns) = 4
    /\ chain.chat_history = <<turns[2], turns[3], turns[4]>>
    /\ turns[1][1] = <<"q", "1">> /\ turns[4][1] = <<"q", "4">>

(* a stream_query generator is being resumed or closed *)
StreamResumed == ChainCall /\ pc \in {"gen_created", "gen_chunk"}
LLMStreamed(cl) == \E i \in DOMAIN cl : cl[i].kind = "stream_generate"

(* the history formatted into the prompt of the suspended generator is the
   history the chain holds now: memory is as it was when the turn started *)
MemoryAsAtStart ==
    \E docs \in ChainStoreResults : frame.prompt = ChainPrompt(chain, docs, frame.question)

(* C12: in a streaming turn the chat history is not modified until the
   language-model stream is drained: every resumption that forwards an
   increment, fails, or is closed leaves it unchanged, and the one that finds
   the stream exhausted appends (question, join of all forwarded increments)
   with nothing left to forward *)
C12_SavedOnlyWhenDrained ==
    [][(StreamResumed /\ LLMStreamed(calls')) =>
          IF ended' = "exhausted"
          THEN /\ yielded' = yielded
               /\ chain' = AddTurn(chain, frame.question, Concat(yielded))
          ELSE /\ chain' = chain
               /\ (pc' = "gen_chunk" /\ IsConversational(chain)) => MemoryAsAtStart']_vars

C12_Witness ==
    /\ ConversationalSession /\ ended = "exhausted" /\ LLMStreamed(calls)
    /\ Len(yielded) = 2 /\ Len(chain.chat_history) = 2
    /\ chain.chat_history[2][2] = Concat(yielded)
    /\ chain.chat_history[1][2] # Concat(yielded)

(* C13: when the caller stops consuming a streamed turn before the increments
   are exhausted (the generator is closed before it started or while it is
   suspended inside the streaming loop), the chat history is left as it was
   when the turn started *)
C13_ClosedStreamNotSaved ==
    [][(StreamResumed /\ ended' = "closed") =>
          /\ chain' = chain
          /\ (pc = "gen_chunk" /\ IsConversational(chain)) => MemoryAsAtStart]_vars

C13_Witness ==
    /\ ConversationalSession /\ ended = "closed" /\ LLMStreamed(calls)
    /\ Len(yielded) = 1 /\ chain.chat_history = <<>>

(* C14: a chain turn that ends by raising (store fault, model fault before or
   during streaming) leaves the chat history exactly as it was before the turn *)
C14_FailedTurnKeepsMemory ==
    [][(ChainCall /\ IsSome(raised')) =>
          /\ chain' = chain
          /\ (pc = "gen_chunk" /\ IsConversational(chain)) => MemoryAsAtStart]_vars

C14_Witness ==
    /\ ConversationalSession /\ ended = "raised" /\ LLMFaults # {}
    /\ Len(yielded) = 1 /\ Len(chain.chat_history) = 1

(* C15: for a deterministic model, whose blocking answer to a prompt is the
   concatenation of the increments it streams for that prompt: the increments
   forwarded in a streaming turn are the model's, in order; a blocking turn
   on the same chain with the same question and documents sends the same
   prompt, returns that concatenation and leaves the same chat history; and
   the answer saved is that concatenation *)
C15_StreamingEqualsBlocking ==
    [][(StreamResumed /\ LLMStreamed(calls') /\ ended' = "exhausted") =>
          LET text == Concat(yielded')
          IN /\ yielded' = [i \in 1..Len(yielded') |-> ChunkAt(i)]
             /\ \E docs \in ChainStoreResults \ {<<>>} :
                   LET b == query(chain, frame.question,
                                  [fault |-> None, docs |-> docs],
                                  [fault |-> None, text |-> text])
                   IN /\ b.calls[2].arg = calls'[2].arg
                      /\ b.result = Some(text)
                      /\ b.chain = chain'
             /\ IsConversational(chain) =>
                   chain'.chat_history[Len(chain'.chat_history)]
                       = <<frame.question, text>>]_vars

C15_Witness ==
    /\ ConversationalSession /\ ended = "exhausted"
    /\ yielded = <<ChunkAt(1), ChunkAt(2)>>
    /\ chain.chat_history[Len(chain.chat_history)] = <<<<"q2">>, <<"1", "2">>>>

AllUpdatesDone == mode = "concurrent" /\ \A t \in Threads : threads[t].pos = "done"

(* C16: with several turns of one session in flight, memory updates are
   applied one at a time in completion order; stated for the moments when no
   update is in progress: every completed turn has been appended once, none
   has been lost, and the chat history is the last min(n, capacity) turns *)
C16_SerializedUpdates ==
    AllUpdatesDone =>
        chain.chat_history = LastN(turns, Min(Len(turns), chain.max_history))

(* C17: generate_node is executed only in states where retrieved_docs is
   present, and while retrieved_docs is absent and no termination rule applies
   the decision is "retrieve" *)
C17_GenerateAfterRetrieve ==
    GraphTurn =>
        /\ pc = "generate" => IsSome(state.retrieved_docs)
        /\ (\E i \in DOMAIN calls : calls[i].kind = "generate")
               => IsSome(state.retrieved_docs)
        /\ (/\ state.retrieved_docs = None
            /\ state.step_count < state.max_steps
            /\ ~Truthy(state.answer) /\ ~Truthy(state.error))
               => decide_node(state) = "retrieve"

C17_Witness ==
    /\ GraphTurn /\ pc = "generate" /\ decision = "generate"
    /\ IsSome(state.retrieved_docs) /\ execs >= 1

(* a state handed to decide_node: under budget, answer and error absent,
   retrieved_docs present *)
DecidedUnderBudget ==
    /\ mode = "decide" /\ pc = "tested"
    /\ state.step_count < state.max_steps
    /\ state.answer = None /\ state.error = None
    /\ IsSome(state.retrieved_docs)

(* C18: for every state under budget with answer and error absent and
   retrieved_docs present, need_more_context = True makes decide return
   "rewrite_query" (or "generate"), whatever retrieval_score is *)
C18_NeedMoreRewrites ==
    (DecidedUnderBudget /\ state.need_more_context = Some(TRUE))
        => decision \in {"rewrite_query", "generate"}

(* C19: for every state under budget with answer and error absent,
   need_more_context false and retrieved_docs present, an empty list included,
   decide returns "generate" *)
C19_RetrievedGenerates ==
    (DecidedUnderBudget /\ ~GetOr(state.need_more_context, FALSE))
        => decision = "generate"

(* C20: once answer is present, even as the empty text, no further step
   executes: the turn is at its decision or has ended, and the decision is
   END *)
C20_AnswerEndsTurn ==
    (GraphTurn /\ state.question # <<>> /\ AnswerPresent) =>
        /\ pc \in {"decide", "done"}
        /\ decide_node(state) = "end"

(* C21 as stated: after every retrieval need_more_context is true exactly when
   retrieval_score < 0.6 *)
C21_NeedMoreIffLowScore ==
    (GraphTurn /\ IsSome(state.retrieved_docs)) =>
        state.need_more_context = Some(Val(state.retrieval_score) < NeedMoreThreshold)

(* C21 amended: after every retrieval need_more_context is true exactly when
   retrieval_score < 0.6 or fewer than k // 2 documents were kept *)
C21_NeedMoreRule ==
    (GraphTurn /\ IsSome(state.retrieved_docs)) =>
        state.need_more_context =
            Some(Val(state.retrieval_score) < NeedMoreThreshold
                 \/ Len(Val(state.retrieved_docs)) < cfg.k \div 2)

C21_Witness ==
    /\ GraphTurn /\ ~ErrorPresent
    /\ state.retrieved_docs # None /\ Len(Val(state.retrieved_docs)) = 1
    /\ Val(state.retrieval_score) >= NeedMoreThreshold
    /\ state.need_more_context = Some(TRUE)

(* retrieve_node has returned from a call whose search is the last one logged *)
Retrieved == mode = "retrieve" /\ pc = "tested"
LastSearch == calls[Len(calls)]

(* C22: when the store returns no documents, retrieve_node sets retrieved_docs
   to the empty list, retrieval_score to 0.0 and need_more_context to True,
   and leaves error absent *)
C22_EmptyResultIsValid ==
    (Retrieved /\ LastSearch.fault = None /\ LastSearch.returned = <<>>) =>
        /\ state.retrieved_docs = Some(<<>>)
        /\ state.retrieval_score = Some(0)
        /\ state.need_more_context = Some(TRUE)
        /\ state.error = None

C22_Witness ==
    /\ Retrieved /\ Len(calls) = 2
    /\ LastSearch.fault = None /\ LastSearch.returned = <<>>
    /\ state.retrieved_docs = Some(<<>>) /\ state.error = None
    /\ state.step_count = 2

ScoresOf(docs) == [i \in 1..Len(docs) |-> Val(docs[i].score)]
AllScored(docs) == \A i \in 1..Len(docs) : IsSome(docs[i].score)
NoneScored(docs) == \A i \in 1..Len(docs) : docs[i].score = None

(* C23: retrieval_score is the arithmetic mean of the documents' scores when
   they carry scores, and min(len(docs) / k, 1.0) when they carry none; scores
   [0.9, 0.7, 0.5, 0.3] with k = 4 give 0.6 and 2 unscored documents give 0.5 *)
C23_ScoreFormula ==
    (Retrieved /\ LastSearch.fault = None) =>
        LET docs == Val(state.retrieved_docs)
            score == Val(state.retrieval_score)
        IN /\ (docs # <<>> /\ AllScored(docs)) =>
                  score * Len(docs) = SumSeq(ScoresOf(docs))
           /\ (docs # <<>> /\ NoneScored(docs)) =>
                  IF Len(docs) >= cfg.k THEN score = Scale
                  ELSE score * cfg.k = Len(docs) * Scale
           /\ (AllScored(docs) /\ ScoresOf(docs) = <<Pct(90), Pct(70), Pct(50), Pct(30)>>)
                  => score = Pct(60)
           /\ (NoneScored(docs) /\ Len(docs) = 2) => score = Pct(50)

C23_Witness ==
    /\ Retrieved /\ LastSearch.fault = None /\ cfg.k = 4
    /\ Len(Val(state.retrieved_docs)) = 4 /\ AllScored(Val(state.retrieved_docs))
    /\ ScoresOf(Val(state.retrieved_docs)) = <<Pct(90), Pct(70), Pct(50), Pct(30)>>
    /\ state.retrieval_score = Some(Pct(60))

IsBlank(text) == \A i \in 1..Len(text) : text[i] = " "

(* C24: when the effective query (retrieval_query if present, else question)
   is empty or whitespace-only, retrieve_node sets error and leaves
   retrieved_docs and retrieval_score absent *)
C24_BlankQueryRejected ==
    (Retrieved /\ Len(calls) = 1 /\ IsBlank(LastSearch.arg)) =>
        /\ ErrorPresent
        /\ state.retrieved_docs = None
        /\ state.retrieval_score = None

(* C25 as stated: after a successful retrieval retrieved_docs is exactly the
   list the search returned *)
C25_ExactlyReturned ==
    (Retrieved /\ LastSearch.fault = None /\ ~IsBlank(LastSearch.arg)) =>
        state.retrieved_docs = Some(LastSearch.returned)

PassesThreshold(d) ==
    cfg.score_threshold = None \/ GetOr(d.score, Scale) >= Val(cfg.score_threshold)

(* C25 amended: after a successful retrieval retrieved_docs is the list the
   search returned, in store order, less the documents whose score is below
   the configured score_threshold (none when no threshold is configured), with
   nothing retained from an earlier retrieval *)
C25_ReplacedWholesale ==
    (Retrieved /\ LastSearch.fault = None) =>
        state.retrieved_docs = Some(SelectSeq(LastSearch.returned, PassesThreshold))

C25_Witness ==
    /\ Retrieved /\ Len(calls) = 2 /\ LastSearch.fault = None
    /\ calls[1].returned # <<>>
    /\ Len(LastSearch.returned) = 3 /\ AllScored(LastSearch.returned)
    /\ ScoresOf(LastSearch.returned) = <<Pct(70), Pct(30), Pct(90)>>
    /\ cfg.score_threshold = Some(Pct(70))
    /\ ScoresOf(Val(state.retrieved_docs)) = <<Pct(70), Pct(90)>>

(* C26: throughout a turn, and so at its end, question has the value the turn
   started with: no node, rewrite_query_node included, modifies it *)
C26_QuestionImmutable ==
    GraphTurn => state.question = cfg.question

C26_Witness ==
    /\ GraphTurn /\ pc = "decide" /\ HasPronoun(state.question)
    /\ state.retrieval_query = Some(ResolvePronouns(state.question))
    /\ Val(state.retrieval_query) # state.question
    /\ state.question = cfg.question

(* C27: decide is a pure function: applying it leaves every field of the
   state unchanged *)
C27_DecideIsPure ==
    [][mode = "decide" => state' = state]_vars

(* the text filling {history} in a prompt of the conversational template: what
   stands between the heading of the history and the heading of the context *)
HistorySlot(prompt) ==
    LET heading == CHOOSE i \in 1..Len(prompt) :
                      /\ prompt[i] = "\ncontext:\n"
                      /\ \A j \in 1..(i - 1) : prompt[j] # "\ncontext:\n"
    IN SubSeq(prompt, 2, heading - 1)

(* one stored turn as a user line followed by an assistant line *)
TurnLines(turn) == <<"user: ">> \o turn[1] \o <<"\n", "assistant: ">> \o turn[2]

RECURSIVE HistoryLines(_)
HistoryLines(turns_) ==
    IF Len(turns_) = 1 THEN TurnLines(turns_[1])
    ELSE TurnLines(turns_[1]) \o <<"\n">> \o HistoryLines(Tail(turns_))

(* a step in which a conversational chain sends a prompt to the model: a
   blocking query, or the first resumption of a streaming one *)
ConversationalPrompted ==
    /\ ChainCall /\ IsConversational(chain)
    /\ \/ pc = "idle" /\ pc' = "idle"
       \/ pc = "gen_created"
    /\ Len(calls') = 2

(* C28: in the conversational variant the history slot of the prompt is the
   fixed placeholder when memory is empty, and otherwise lists every stored
   turn oldest first as alternating user/assistant lines, without the current
   question *)
C28_HistorySlot ==
    [][ConversationalPrompted =>
          /\ calls'[2].arg[1] = "history:\n"
          /\ HistorySlot(calls'[2].arg) =
                IF chain.chat_history = <<>> THEN FirstRoundPlaceholder
                ELSE HistoryLines(chain.chat_history)]_vars

C28_Witness ==
    /\ ConversationalSession /\ Len(calls) = 2 /\ calls[2].kind = "generate"
    /\ Len(chain.chat_history) = 2 /\ chain.max_history = 2
    /\ chain.chat_history[1] # chain.chat_history[2]
    /\ \E first \in {<<<<"q1">>, ChainNotFoundAnswer>>} :
          HistorySlot(calls[2].arg) = HistoryLines(<<first, chain.chat_history[1]>>)

(* a resumption with which a stream_query of a conversational chain has been
   consumed in full: the model's stream is exhausted, or the single answer of
   the no-documents branch has been forwarded *)
ConversationalStreamConsumed ==
    /\ StreamResumed /\ IsConversational(chain)
    /\ (ended' = "exhausted" \/ pc' = "gen_notfound")

(* C29: for ConversationalRAGChain, a fully consumed stream_query(q) puts the
   stored history into its prompt and leaves chat_history as a query(q) call
   returning the same answer text leaves it: (q, full answer) appended with
   the same eviction *)
C29_ConversationalStreamAsQuery ==
    [][ConversationalStreamConsumed =>
          LET text == Concat(yielded')
          IN IF LLMStreamed(calls')
             THEN /\ HistorySlot(calls'[2].arg) = format_history(chain.chat_history)
                  /\ chain'.chat_history =
                        add_to_history(chain.chat_history, chain.max_history,
                                       frame.question, text)
                  /\ \E docs \in ChainStoreResults \ {<<>>} :
                        chain' = query(chain, frame.question,
                                       [fault |-> None, docs |-> docs],
                                       [fault |-> None, text |-> text]).chain
             ELSE /\ text = ChainNotFoundAnswer
                  /\ chain' = query(chain, frame.question,
                                    [fault |-> None, docs |-> <<>>], NoOutcome).chain]_vars

C29_Witness ==
    /\ ConversationalSession /\ ended = "exhausted" /\ LLMStreamed(calls)
    /\ chain.max_history = 1
    /\ HistorySlot(calls[2].arg) = TurnLines(<<<<"q1">>, ChainNotFoundAnswer>>)
    /\ chain.chat_history = <<<<<<"q2">>, Concat(yielded)>>>>
    /\ Len(yielded) = 1

CacheHit == mode = "cache" /\ pc = "hit"

(* the search made by the earlier invocation that filled the cache for a key *)
FillingSearches(key) ==
    {i \in DOMAIN calls : calls[i].arg = key /\ calls[i].fault = None}

(* C30: for a node wrapped with with_cache, a second invocation whose cache
   key equals that of an earlier invocation does not execute the node and
   returns a state containing the fields the earlier invocation produced (for
   a retrieval node, the same retrieved_docs) *)
C30_HitReturnsCachedFields ==
    CacheHit =>
        /\ "retrieved_docs" \in DOMAIN state
        /\ \E i \in FillingSearches(state["question"]) :
              state["retrieved_docs"] = calls[i].returned

RetryReturned == mode = "retry" /\ pc = "returned"
FailedAttempts == {i \in DOMAIN calls : IsSome(calls[i].fault)}

(* C31: a node wrapped with with_retry(max_retries=n), or built by
   create_retrieve_with_retry with max_retries=n, is attempted at most n times
   per invocation, is not attempted again after a success, and sets
   state.error only when all n attempts failed *)
C31_BoundedRetry ==
    mode = "retry" =>
        /\ Len(calls) <= cfg.max_retries
        /\ \A i \in 1..(Len(calls) - 1) : IsSome(calls[i].fault)
        /\ (IsSome(state.error) /\ state.error # cfg.input.error) =>
              /\ RetryReturned
              /\ Len(calls) = cfg.max_retries
              /\ FailedAttempts = DOMAIN calls
        /\ (RetryReturned /\ calls # <<>> /\ ~IsSome(calls[Len(calls)].fault)) =>
              state.error \in {None, cfg.input.error}

C31_Witness ==
    /\ RetryReturned /\ cfg.max_retries = 3 /\ cfg.variant = "with_retry"
    /\ Len(calls) = 3 /\ FailedAttempts = {1, 2}
    /\ state.retrieved_docs = Some(<<[page_content |-> <<"c">>]>>)
    /\ state.error = None

(* a step in which a conversational chain searched the store without a fault:
   a blocking query, or the first resumption of a streaming one *)
ConversationalSearched ==
    /\ ChainCall /\ IsConversational(chain)
    /\ pc \in {"idle", "gen_created"} /\ pc' # "gen_created"
    /\ calls' # <<>> /\ calls'[1].kind = "search" /\ calls'[1].fault = None

(* C32: a conversational turn whose retrieval returns no documents appends
   (question, fixed 'not found' answer) to chat_history and makes no
   LanguageModel call, in both query and stream_query; a turn that does call
   the model has documents in its prompt *)
C32_NoDocumentsTurn ==
    [][ConversationalSearched =>
          IF Len(calls') = 1
          THEN /\ chain'.chat_history =
                     add_to_history(chain.chat_history, chain.max_history,
                                    calls'[1].arg, ChainNotFoundAnswer)
               /\ IF pc = "idle"
                  THEN result' = Some(ChainNotFoundAnswer) /\ ended' = "returned"
                  ELSE /\ yielded' = <<ChainNotFoundAnswer>> /\ pc' = "gen_notfound"
                       /\ calls'[1].arg = frame.question
          ELSE /\ calls'[2].kind \in {"generate", "stream_generate"}
               /\ Contains(calls'[2].arg, <<"[doc", "1", "]\n">>)]_vars

C32_Witness ==
    /\ ConversationalSession /\ pc = "gen_notfound" /\ Len(calls) = 1
    /\ chain.max_history = 2 /\ Len(chain.chat_history) = 2
    /\ chain.chat_history[2] = <<<<"q2">>, ChainNotFoundAnswer>>
    /\ chain.chat_history[1][2] = <<"1", "2">>

ChatUI == mode = "chat"
Awaiting == {turn \in DOMAIN threads : threads[turn].pos = "awaiting"}
ConversationIds(s) == {s.conversations[i].id : i \in DOMAIN s.conversations}

(* C33: the assistant reply (or error message) that handleSend appends is
   added to the same conversation that received the user's question, even if
   the user switches, creates or deletes conversations while the request is
   in flight *)
C33_ReplyInAskedConversation ==
    ChatUI =>
        \A i \in DOMAIN state.conversations :
            \A j \in DOMAIN state.conversations[i].messages :
                LET message == state.conversations[i].messages[j]
                IN message.role = "assistant" =>
                      threads[message.turn].conv = Some(state.conversations[i].id)

(* C34: at most one chat request is in flight at any time: a handleSend call
   made while an earlier send has not finished adds no message and issues no
   request, even when both calls happen before the component re-renders *)
C34_OneRequestInFlight ==
    ChatUI => Cardinality(Awaiting) <= 1

(* C35: after any sequence of store actions, currentConversationId is null or
   the id of a conversation in conversations, and the top-level messages
   equal that conversation's messages (empty when it is null) *)
C35_CurrentConversationConsistent ==
    ChatUI =>
        IF IsSome(state.currentConversationId)
        THEN \E i \in DOMAIN state.conversations :
                /\ state.conversations[i].id = Val(state.currentConversationId)
                /\ state.messages = state.conversations[i].messages
        ELSE state.messages = <<>>

C35_Witness ==
    /\ ChatUI /\ Len(state.conversations) = 2 /\ turns # <<>>
    /\ state.currentConversationId = Some(state.conversations[1].id)
    /\ Len(state.messages) = 1 /\ state.messages[1].role = "assistant"
    /\ Len(state.conversations[2].messages) = 2

(* a step that removed the conversation `id` from the list and kept the rest *)
Deleted(id) ==
    /\ ChatUI
    /\ id \in ConversationIds(state)
    /\ state'.conversations =
          SelectSeq(state.conversations, LAMBDA conv : conv.id # id)

(* C36: deleting the current conversation makes the first remaining
   conversation current, or creates a new conversation and makes it current
   when none remain; deleting any other conversation leaves the current one
   unchanged *)
C36_DeleteKeepsACurrent ==
    [][\A id \in 1..execs :
          Deleted(id) =>
             IF state.currentConversationId # Some(id)
             THEN state'.currentConversationId = state.currentConversationId
             ELSE /\ IsSome(state'.currentConversationId)
                  /\ Val(state'.currentConversationId) \in ConversationIds(state')
                  /\ Len(state.conversations) > 1 =>
                        state'.currentConversationId = Some(state'.conversations[1].id)]_vars

(* C37: every handleSend that sets isLoading to true eventually sets it back
   to false, on every path: successful reply, API failure, and the RAG-mode
   early returns; the step with which an invocation finishes leaves isLoading
   false *)
C37_LoadingIsReset ==
    /\ \A turn \in 1..MaxSends :
          (ChatUI /\ turn \in DOMAIN threads)
             ~> (turn \in DOMAIN threads /\ threads[turn].pos = "finished")
    /\ [][\A turn \in DOMAIN threads' :
             (ChatUI /\ threads'[turn].pos = "finished"
                /\ (turn \in DOMAIN threads => threads[turn].pos # "finished"))
             => ~state'.isLoading]_vars

C37_Witness ==
    /\ ChatUI /\ Len(threads) = 2
    /\ \A turn \in DOMAIN threads : threads[turn].pos = "finished"
    /\ ~state.isLoading
    /\ Len(calls) = 1
    /\ \E i \in DOMAIN state.messages : state.messages[i].content = "error"
    /\ \E i \in DOMAIN state.messages : state.messages[i].role = "system"

(* every effect has run: the components are rendered and at rest *)
ThemeSettled == mode = "theme" /\ state.pending = {}

(* C38: after toggleTheme is called in one component, every mounted component
   that uses useTheme observes the new theme, and it matches both the
   persisted theme and the class on the document root *)
C38_ThemeShared ==
    ThemeSettled =>
        \A component \in Mounted(state) :
            /\ state.theme[component] = state.theme["Sidebar"]
            /\ state.theme[component] = state.stored
            /\ state.theme[component] = state.root

====
